---- MODULE Spec2Model ----
(***************************************************************************)
(* Model of the signal-detection engine of trading_yfinance_alert_dashboard *)
(* (swing_point.py, fvg.py, strategy.py).                                   *)
(*                                                                          *)
(* A candle sequence is a function from 0..n-1 (the Python list indices)    *)
(* to records [high, low, close]; 'open', 'volume' and the timestamp are    *)
(* never read by the engine.  A swing point is the Python tuple             *)
(* (index, type, value), a gap the dict built in find_fvgs_in_range, a      *)
(* signal the dict built in check_entry_criteria.  Python's None is the     *)
(* record None for dicts, the string "None" for a trend or a type, and the  *)
(* empty sequence for the list of swing points.                             *)
(*                                                                          *)
(* The orchestration layer (monitor.py) is modelled next to the engine: the *)
(* module-level security-name cache and the calls of get_security_name.     *)
(***************************************************************************)
EXTENDS Integers, Sequences, FiniteSets, TLC

\* Longest candle sequence explored.
MaxLen == 5
\* Prices are drawn from 0..MaxPrice.
MaxPrice == 2
\* Longest candle sequence on which the gap search is called directly.
MaxFvgLen == 4
\* Direct calls of the gap search use start_idx in 0..MaxStart, end_idx in 0..MaxEnd.
MaxStart == 1
MaxEnd == 2
\* The wall clock advances at most MaxTicks times, by TickSeconds each time.
MaxTicks == 3

\* config.SECURITY_NAME_CACHE_DURATION, in seconds.
SECURITY_NAME_CACHE_DURATION == 86400

\* One step of the wall clock: half the configured cache duration.
TickSeconds == 43200
\* Size of the worker pool in the scans explored (config.MAX_WORKERS is 10).
MAX_WORKERS == 2
\* Longest candle sequence, besides the fixtures, handed to concurrent
\* invocations of the engine and returned by the data fetch.
MaxInvLen == 1
\* Longest candle sequence on which the trend classifier is called directly.
MaxTrendLen == 4

VARIABLES candles, op, args, swing_points, trend, fvgs, fvg, signal, fvg_searched

\* monitor.py: the dict _security_name_cache, the wall clock, the number of
\* provider requests made so far, for each cache entry when it was stored
\* and whether by a failed lookup (the code keeps no such record; it is kept
\* here to state how old an entry is), and the last call of
\* get_security_name with what it returned.
VARIABLES security_name_cache, now, provider_calls, stored, name_call

\* One scan of monitor_tickers: what each (ticker, timeframe) task is going to
\* do, how far each task has got, and the locals grouped_signals, errors and
\* checks_completed of the collecting loop, and the grouped report printed at
\* the end of the scan (None before).
VARIABLES task_outcome, task_state, grouped_signals, errors, checks_completed, report

\* The invocations of check_entry_criteria running at the same time, each with
\* the candle list it was given, that list as it is now, its position and its
\* locals; and the last call of check_ticker_timeframe with what it did.
VARIABLES invocations, check_call

engine_vars == <<candles, op, args, swing_points, trend, fvgs, fvg, signal, fvg_searched>>

cache_vars == <<security_name_cache, now, provider_calls, stored, name_call>>

scan_vars == <<task_outcome, task_state, grouped_signals, errors, checks_completed, report>>

call_vars == <<invocations, check_call>>

orch_vars == <<cache_vars, scan_vars, call_vars>>

vars == <<engine_vars, orch_vars>>

None == [isNone |-> TRUE]

IsNone(d) == "isNone" \in DOMAIN d

\* len(candles)
len(cs) == Cardinality(DOMAIN cs)

Prices == 0..MaxPrice

\* A well-formed candle: high >= low, close within the candle's range.
Candle == {c \in [high : Prices, low : Prices, close : Prices] :
             c.high >= c.low /\ c.low <= c.close /\ c.close <= c.high}

\* The candle lists of length n.
CandleSeqs(n) == [0..(n - 1) -> Candle]

\* Candles that close on their high: inputs of the functions that never read 'close'.
HLCandle == {c \in Candle : c.close = c.high}

HLCandleSeqs(n) == [0..(n - 1) -> HLCandle]

\* A candle list from its columns.
FromColumns(h, l, c) ==
    [i \in 0..(Len(h) - 1) |-> [high |-> h[i + 1], low |-> l[i + 1], close |-> c[i + 1]]]

\* create_test_candles() of test_verification.py.
create_test_candles ==
    FromColumns(<<105, 110, 109, 106, 101, 107, 108, 115, 120, 119>>,
                <<95, 100, 103, 98, 99, 102, 104, 111, 112, 115>>,
                <<102, 108, 105, 100, 100, 105, 106, 113, 118, 117>>)

\* The 13 candles of test_fvg_range_verification() (candle 5 has high < low there).
range_verification_candles ==
    FromColumns(<<105, 110, 109, 106, 95, 93, 94, 90, 91, 95, 100, 115, 113>>,
                <<95, 100, 103, 90, 88, 110, 85, 87, 88, 89, 98, 98, 108>>,
                <<102, 108, 105, 92, 90, 92, 88, 89, 90, 93, 99, 112, 110>>)

\* A well-formed sequence whose middle swing low (3) lies above its most recent
\* swing high (2) and that still carries a bullish gap at (4,5,6).
inverted_levels_candles ==
    FromColumns(<<3, 4, 3, 5, 0, 2, 1>>,
                <<3, 4, 3, 4, 0, 0, 1>>,
                <<3, 4, 3, 5, 0, 2, 1>>)

\* A well-formed sequence in which candles 2 and 3 share their high (a plateau
\* above candle 4) between the swing low at 4 and the swing high at 1.
plateau_candles ==
    FromColumns(<<0, 2, 1, 1, 0, 2, 1>>,
                <<0, 1, 1, 1, 0, 1, 1>>,
                <<0, 2, 1, 1, 0, 2, 1>>)

Fixtures ==
    {create_test_candles, range_verification_candles, inverted_levels_candles,
     plateau_candles}


(***************************************************************************)
(* swing_point.py                                                           *)
(***************************************************************************)
identify_swing_high_nonstrict(cs, index) ==
    IF index < 1 \/ index >= len(cs) - 1
    THEN FALSE
    ELSE cs[index].high >= cs[index - 1].high /\ cs[index].high >= cs[index + 1].high

identify_swing_high(cs, index) ==
    IF index < 1 \/ index >= len(cs) - 1
    THEN FALSE
    ELSE cs[index].high > cs[index - 1].high /\ cs[index].high > cs[index + 1].high

identify_swing_low_next_only(cs, index) ==
    IF index < 1 \/ index >= len(cs) - 1
    THEN FALSE
    ELSE cs[index].low < cs[index + 1].low

identify_swing_low(cs, index) ==
    IF index < 1 \/ index >= len(cs) - 1
    THEN FALSE
    ELSE cs[index].low < cs[index - 1].low /\ cs[index].low < cs[index + 1].low

\* One iteration of the loop body of find_three_swing_points at index i:
\* st = [sps, last_type] before the iteration, the result is the state after.
swing_step_no_alternation(cs, i, st) ==
    IF identify_swing_high(cs, i)
    THEN [sps |-> Append(st.sps, <<i, "SH", cs[i].high>>), last_type |-> "SH"]
    ELSE IF identify_swing_low(cs, i)
         THEN [sps |-> Append(st.sps, <<i, "SL", cs[i].low>>), last_type |-> "SL"]
         ELSE st

swing_step(cs, i, st) ==
    IF identify_swing_high(cs, i)
    THEN IF st.last_type # "SH"
         THEN [sps |-> Append(st.sps, <<i, "SH", cs[i].high>>), last_type |-> "SH"]
         ELSE st
    ELSE IF identify_swing_low(cs, i)
         THEN IF st.last_type # "SL"
              THEN [sps |-> Append(st.sps, <<i, "SL", cs[i].low>>), last_type |-> "SL"]
              ELSE st
         ELSE st

\* swing_points = [], last_type = None
swing_start == [sps |-> <<>>, last_type |-> "None"]

\* The loop 'for i in range(first, stop, -1)' with its 'break' once 3 points are
\* held, from index i on; the code runs it with first = len(candles) - 2, stop = 0.
RECURSIVE swing_scan(_, _, _, _)
swing_scan(cs, i, stop, st) ==
    IF i <= stop \/ Len(st.sps) >= 3
    THEN st
    ELSE swing_scan(cs, i - 1, stop, swing_step(cs, i, st))

find_three_swing_points_oldest_first(cs) ==
    LET st == swing_scan(cs, len(cs) - 2, 0, swing_start)
    IN  IF Len(st.sps) = 3 THEN <<st.sps[3], st.sps[2], st.sps[1]>> ELSE <<>>

find_three_swing_points(cs) ==
    LET st == swing_scan(cs, len(cs) - 2, 0, swing_start)
    IN  IF Len(st.sps) = 3 THEN st.sps ELSE <<>>

(***************************************************************************)
(* fvg.py                                                                   *)
(***************************************************************************)
Min2(a, b) == IF a < b THEN a ELSE b

\* The gap appended (or not) by the loop body of find_fvgs_in_range at i.
fvg_at_nonstrict(cs, i, fvg_type) ==
    IF fvg_type = "bullish"
    THEN IF cs[i + 2].low >= cs[i].high
         THEN <<[type |-> "bullish", top |-> cs[i + 2].low,
                 bottom |-> cs[i].high, start_idx |-> i, end_idx |-> i + 2]>>
         ELSE <<>>
    ELSE IF fvg_type = "bearish"
         THEN IF cs[i].low >= cs[i + 2].high
              THEN <<[type |-> "bearish", top |-> cs[i].low,
                      bottom |-> cs[i + 2].high, start_idx |-> i, end_idx |-> i + 2]>>
              ELSE <<>>
         ELSE <<>>

fvg_at(cs, i, fvg_type) ==
    IF fvg_type = "bullish"
    THEN IF cs[i + 2].low > cs[i].high
         THEN LET g == [type |-> "bullish", top |-> cs[i + 2].low,
                        bottom |-> cs[i].high,
                        start_idx |-> i, end_idx |-> i + 2]
              IN  IF g.top > g.bottom THEN <<g>> ELSE <<>>
         ELSE <<>>
    ELSE IF fvg_type = "bearish"
         THEN IF cs[i].low > cs[i + 2].high
              THEN LET g == [type |-> "bearish", top |-> cs[i].low,
                             bottom |-> cs[i + 2].high,
                             start_idx |-> i, end_idx |-> i + 2]
                   IN  IF g.top > g.bottom THEN <<g>> ELSE <<>>
              ELSE <<>>
         ELSE <<>>

RECURSIVE fvg_scan_first_hit(_, _, _, _, _)
fvg_scan_first_hit(cs, i, search_end, fvg_type, acc) ==
    IF i > search_end \/ i + 2 >= len(cs) \/ acc # <<>>
    THEN acc
    ELSE fvg_scan_first_hit(cs, i + 1, search_end, fvg_type, acc \o fvg_at(cs, i, fvg_type))

\* The loop 'for i in range(start_idx, search_end + 1)' from index i on.
RECURSIVE fvg_scan(_, _, _, _, _)
fvg_scan(cs, i, search_end, fvg_type, acc) ==
    IF i > search_end \/ i + 2 >= len(cs)
    THEN acc
    ELSE fvg_scan(cs, i + 1, search_end, fvg_type, acc \o fvg_at(cs, i, fvg_type))

find_fvgs_in_range_exclusive_end(cs, start_idx, end_idx, fvg_type) ==
    fvg_scan(cs, start_idx, Min2(end_idx, len(cs) - 3) - 1, fvg_type, <<>>)

find_fvgs_in_range(cs, start_idx, end_idx, fvg_type) ==
    fvg_scan(cs, start_idx, Min2(end_idx, len(cs) - 3), fvg_type, <<>>)

\* Python's max(fvgs, key=bottom): the first element whose key is maximal.
RECURSIVE max_by_bottom_last(_, _, _)
max_by_bottom_last(gs, k, best) ==
    IF k > Len(gs) THEN best
    ELSE max_by_bottom_last(gs, k + 1, IF gs[k].bottom >= best.bottom THEN gs[k] ELSE best)

RECURSIVE max_by_bottom(_, _, _)
max_by_bottom(gs, k, best) ==
    IF k > Len(gs) THEN best
    ELSE max_by_bottom(gs, k + 1, IF gs[k].bottom > best.bottom THEN gs[k] ELSE best)

\* Python's min(fvgs, key=top): the first element whose key is minimal.
RECURSIVE min_by_top(_, _, _)
min_by_top(gs, k, best) ==
    IF k > Len(gs) THEN best
    ELSE min_by_top(gs, k + 1, IF gs[k].top < best.top THEN gs[k] ELSE best)

select_optimal_fvg_swapped(gs, fvg_type) ==
    IF gs = <<>> THEN None
    ELSE IF fvg_type = "bullish"
         THEN min_by_top(gs, 2, gs[1])
         ELSE max_by_bottom(gs, 2, gs[1])

select_optimal_fvg(gs, fvg_type) ==
    IF gs = <<>> THEN None
    ELSE IF fvg_type = "bullish"
         THEN max_by_bottom(gs, 2, gs[1])
         ELSE min_by_top(gs, 2, gs[1])

(***************************************************************************)
(* strategy.py                                                              *)
(***************************************************************************)
RECURSIVE check_candles_close_above(_, _, _, _)
check_candles_close_above(cs, start_idx, end_idx, threshold) ==
    IF start_idx > end_idx \/ start_idx >= len(cs) THEN FALSE
    ELSE IF cs[start_idx].close > threshold THEN TRUE
         ELSE check_candles_close_above(cs, start_idx + 1, end_idx, threshold)

RECURSIVE check_candles_close_below_or_equal(_, _, _, _)
check_candles_close_below_or_equal(cs, start_idx, end_idx, threshold) ==
    IF start_idx > end_idx \/ start_idx >= len(cs) THEN FALSE
    ELSE IF cs[start_idx].close <= threshold THEN TRUE
         ELSE check_candles_close_below_or_equal(cs, start_idx + 1, end_idx, threshold)

RECURSIVE check_candles_close_below(_, _, _, _)
check_candles_close_below(cs, start_idx, end_idx, threshold) ==
    IF start_idx > end_idx \/ start_idx >= len(cs) THEN FALSE
    ELSE IF cs[start_idx].close < threshold THEN TRUE
         ELSE check_candles_close_below(cs, start_idx + 1, end_idx, threshold)

analyze_trend_break_first(cs, sps) ==
    LET sp1 == sps[1]
        sp2 == sps[2]
        sp3 == sps[3]
    IN  IF sp3[2] = "SH" /\ sp1[2] = "SH"
        THEN IF check_candles_close_above(cs, sp3[1], len(cs) - 1, sp3[3]) THEN "bullish"
             ELSE IF check_candles_close_below(cs, sp2[1], len(cs) - 1, sp2[3]) THEN "bearish"
             ELSE IF sp1[3] > sp3[3] THEN "bullish"
             ELSE "None"
        ELSE IF sp3[2] = "SL" /\ sp1[2] = "SL"
        THEN IF check_candles_close_below(cs, sp3[1], len(cs) - 1, sp3[3]) THEN "bearish"
             ELSE IF sp1[3] < sp3[3] THEN "bearish"
             ELSE IF check_candles_close_above(cs, sp2[1], len(cs) - 1, sp2[3]) THEN "bullish"
             ELSE "None"
        ELSE "None"

analyze_trend(cs, sps) ==
    LET sp1 == sps[1]
        sp2 == sps[2]
        sp3 == sps[3]
    IN  IF sp3[2] = "SH" /\ sp1[2] = "SH"
        THEN IF check_candles_close_above(cs, sp3[1], len(cs) - 1, sp3[3]) THEN "bullish"
             ELSE IF sp1[3] > sp3[3] THEN "bullish"
             ELSE IF check_candles_close_below(cs, sp2[1], len(cs) - 1, sp2[3]) THEN "bearish"
             ELSE "None"
        ELSE IF sp3[2] = "SL" /\ sp1[2] = "SL"
        THEN IF check_candles_close_below(cs, sp3[1], len(cs) - 1, sp3[3]) THEN "bearish"
             ELSE IF sp1[3] < sp3[3] THEN "bearish"
             ELSE IF check_candles_close_above(cs, sp2[1], len(cs) - 1, sp2[3]) THEN "bullish"
             ELSE "None"
        ELSE "None"

\* The branch of check_entry_criteria taken after both early returns:
\* "bullish", "bearish", or "None" when neither 'if' nor 'elif' applies.
entry_branch_trend_only(sps, tr) == tr

entry_branch(sps, tr) ==
    IF tr = "bullish" /\ sps[3][2] = "SH" /\ sps[1][2] = "SH" THEN "bullish"
    ELSE IF tr = "bearish" /\ sps[3][2] = "SL" /\ sps[1][2] = "SL" THEN "bearish"
    ELSE "None"

\* The index range handed to find_fvgs_in_range: (sp2_idx, sp1_idx).
search_range_from_oldest(sps) == <<sps[3][1], sps[1][1]>>

search_range(sps) == <<sps[2][1], sps[1][1]>>

\* The dict returned on success.
entry_signal_swapped(tr, sps, g) ==
    [trend |-> tr, swing_points |-> sps, fvg |-> g,
     target |-> sps[2][3], stop_loss |-> sps[1][3]]

entry_signal_reordered(tr, sps, g) ==
    [trend |-> tr, swing_points |-> sps, fvg |-> g,
     target |-> IF sps[1][3] >= sps[2][3] THEN sps[1][3] ELSE sps[2][3],
     stop_loss |-> IF sps[1][3] >= sps[2][3] THEN sps[2][3] ELSE sps[1][3]]

entry_signal(tr, sps, g) ==
    [trend |-> tr, swing_points |-> sps, fvg |-> g,
     target |-> sps[1][3], stop_loss |-> sps[2][3]]

check_entry_criteria_gap_optional(cs) ==
    LET sps == find_three_swing_points(cs)
        nothing == [swing_points |-> sps, trend |-> "None", searched |-> FALSE,
                    fvgs |-> <<>>, fvg |-> None, signal |-> None]
    IN  IF sps = <<>> THEN nothing
        ELSE
        LET tr == analyze_trend(cs, sps) IN
        IF tr = "None" THEN nothing
        ELSE
        LET br == entry_branch(sps, tr) IN
        IF br = "None" THEN [nothing EXCEPT !.trend = tr]
        ELSE
        LET rng == search_range(sps)
            gs  == find_fvgs_in_range(cs, rng[1], rng[2], br)
            g   == select_optimal_fvg(gs, br)
        IN  [swing_points |-> sps, trend |-> tr, searched |-> TRUE, fvgs |-> gs,
             fvg |-> g, signal |-> entry_signal(tr, sps, g)]

\* The whole run of check_entry_criteria as a record of what it computed:
\* the swing points, the trend, whether find_fvgs_in_range was called and
\* with what result, the selected gap and the returned value.
check_entry_criteria(cs) ==
    LET sps == find_three_swing_points(cs)
        nothing == [swing_points |-> sps, trend |-> "None", searched |-> FALSE,
                    fvgs |-> <<>>, fvg |-> None, signal |-> None]
    IN  IF sps = <<>> THEN nothing
        ELSE
        LET tr == analyze_trend(cs, sps) IN
        IF tr = "None" THEN nothing
        ELSE
        LET br == entry_branch(sps, tr) IN
        IF br = "None" THEN [nothing EXCEPT !.trend = tr]
        ELSE
        LET rng == search_range(sps)
            gs  == find_fvgs_in_range(cs, rng[1], rng[2], br)
            g   == select_optimal_fvg(gs, br)
        IN  [swing_points |-> sps, trend |-> tr, searched |-> TRUE, fvgs |-> gs,
             fvg |-> IF gs # <<>> THEN g ELSE None,
             signal |-> IF gs # <<>> THEN entry_signal(tr, sps, g) ELSE None]

(***************************************************************************)
(* The list indices each function subscripts 'candles' with.  Python raises *)
(* IndexError for an index >= len(candles) and reads from the end of the    *)
(* list for a negative one.                                                 *)
(***************************************************************************)
\* identify_swing_high and identify_swing_low at 'index': index, index - 1 and
\* index + 1 once the guard is passed.
identify_swing_reads(cs, index) ==
    IF index < 1 \/ index >= len(cs) - 1
    THEN {}
    ELSE {index - 1, index, index + 1}

\* The loop of find_three_swing_points from index i on.
RECURSIVE swing_scan_reads(_, _, _, _)
swing_scan_reads(cs, i, stop, st) ==
    IF i <= stop \/ Len(st.sps) >= 3
    THEN {}
    ELSE identify_swing_reads(cs, i) \cup swing_scan_reads(cs, i - 1, stop, swing_step(cs, i, st))

find_three_swing_points_reads(cs) == swing_scan_reads(cs, len(cs) - 2, 0, swing_start)

\* check_candles_close_above: every i from start_idx up to the first close
\* above the threshold, the end of the range or the end of the list.
RECURSIVE check_candles_close_above_reads(_, _, _, _)
check_candles_close_above_reads(cs, start_idx, end_idx, threshold) ==
    IF start_idx > end_idx \/ start_idx >= len(cs) THEN {}
    ELSE {start_idx} \cup
         IF cs[start_idx].close > threshold THEN {}
         ELSE check_candles_close_above_reads(cs, start_idx + 1, end_idx, threshold)

RECURSIVE check_candles_close_below_reads(_, _, _, _)
check_candles_close_below_reads(cs, start_idx, end_idx, threshold) ==
    IF start_idx > end_idx \/ start_idx >= len(cs) THEN {}
    ELSE {start_idx} \cup
         IF cs[start_idx].close < threshold THEN {}
         ELSE check_candles_close_below_reads(cs, start_idx + 1, end_idx, threshold)

\* analyze_trend: the scans its if/elif chain gets to.
analyze_trend_reads(cs, sps) ==
    LET sp1 == sps[1]
        sp2 == sps[2]
        sp3 == sps[3]
    IN  IF sp3[2] = "SH" /\ sp1[2] = "SH"
        THEN check_candles_close_above_reads(cs, sp3[1], len(cs) - 1, sp3[3]) \cup
             IF check_candles_close_above(cs, sp3[1], len(cs) - 1, sp3[3]) \/ sp1[3] > sp3[3]
             THEN {}
             ELSE check_candles_close_below_reads(cs, sp2[1], len(cs) - 1, sp2[3])
        ELSE IF sp3[2] = "SL" /\ sp1[2] = "SL"
        THEN check_candles_close_below_reads(cs, sp3[1], len(cs) - 1, sp3[3]) \cup
             IF check_candles_close_below(cs, sp3[1], len(cs) - 1, sp3[3]) \/ sp1[3] < sp3[3]
             THEN {}
             ELSE check_candles_close_above_reads(cs, sp2[1], len(cs) - 1, sp2[3])
        ELSE {}

\* find_fvgs_in_range: i and i + 2 for every i the loop body is run with.
find_fvgs_in_range_reads_unclamped(cs, start_idx, end_idx) ==
    UNION {{i, i + 2} : i \in start_idx..end_idx}

find_fvgs_in_range_reads(cs, start_idx, end_idx) ==
    UNION {{i, i + 2} : i \in {j \in start_idx..Min2(end_idx, len(cs) - 3) : j + 2 < len(cs)}}

\* check_entry_criteria: the extractor, then the classifier when three points
\* were found, then the gap search when it is reached.
check_entry_criteria_reads(cs) ==
    LET r == check_entry_criteria(cs)
    IN  find_three_swing_points_reads(cs) \cup
        (IF r.swing_points = <<>> THEN {}
         ELSE analyze_trend_reads(cs, r.swing_points) \cup
              (IF r.searched
               THEN find_fvgs_in_range_reads(cs, search_range(r.swing_points)[1],
                                             search_range(r.swing_points)[2])
               ELSE {}))

\* What a caller can tell from the value check_entry_criteria returned: a dict
\* or None; the function has no other exit.
Outcome(returned) == IF IsNone(returned) THEN "NoSignal" ELSE "Signal"

(***************************************************************************)
(* State machine: a caller holds a candle sequence and calls one of the     *)
(* engine's functions on it.  op names the call made, args its arguments    *)
(* besides the candles; the other variables hold what the call computed.    *)
(***************************************************************************)
(***************************************************************************)
(* check_entry_criteria run by several workers at once                      *)
(***************************************************************************)
\* The candle lists handed to the invocations.
InvocationInputs == Fixtures \cup UNION {HLCandleSeqs(n) : n \in 0..MaxInvLen}

\* The two invocations in flight.
InvocationIds == {"first", "second"}

\* An invocation entered with the list cs: its parameter 'candles' (with the
\* list as it was handed over kept beside it), where it stands, its locals
\* swing_points and trend, and the value it returned.
invocation_start(cs) ==
    [given |-> cs, candles |-> cs, pc |-> "start", swing_points |-> <<>>,
     trend |-> "None", returned |-> None]

\* One step of an invocation: step 1 (find the swing points), step 2 (analyze
\* the trend), step 3 (search the gaps and return).
invocation_step_trimming(inv) ==
    IF inv.pc = "start"
    THEN LET sps == find_three_swing_points(inv.candles)
         IN  IF sps = <<>>
             THEN [inv EXCEPT !.pc = "returned",
                              !.candles = [i \in 0..(len(inv.candles) - 2) |-> inv.candles[i]]]
             ELSE [inv EXCEPT !.pc = "swings", !.swing_points = sps,
                              !.candles = [i \in 0..(len(inv.candles) - 2) |-> inv.candles[i]]]
    ELSE [inv EXCEPT !.pc = "returned"]

invocation_step(inv) ==
    IF inv.pc = "start"
    THEN LET sps == find_three_swing_points(inv.candles)
         IN  IF sps = <<>> THEN [inv EXCEPT !.pc = "returned"]
             ELSE [inv EXCEPT !.pc = "swings", !.swing_points = sps]
    ELSE IF inv.pc = "swings"
    THEN LET tr == analyze_trend(inv.candles, inv.swing_points)
         IN  IF tr = "None" THEN [inv EXCEPT !.pc = "returned"]
             ELSE [inv EXCEPT !.pc = "trend", !.trend = tr]
    ELSE LET br  == entry_branch(inv.swing_points, inv.trend)
             rng == search_range(inv.swing_points)
             gs  == IF br = "None" THEN <<>>
                    ELSE find_fvgs_in_range(inv.candles, rng[1], rng[2], br)
         IN  IF gs = <<>> THEN [inv EXCEPT !.pc = "returned"]
             ELSE [inv EXCEPT !.pc = "returned",
                              !.returned = entry_signal(inv.trend, inv.swing_points,
                                                        select_optimal_fvg(gs, br))]

(***************************************************************************)
(* monitor.py                                                               *)
(***************************************************************************)
\* Two of config.TICKERS.
Tickers == {"EURUSD=X", "GC=F"}

\* What the provider request (yf.Ticker(ticker).info) can do: raise, or give a
\* dict whose 'longName' and 'shortName' are each present or missing ("").
ProviderOutcomes ==
    [raises : BOOLEAN, longName : {"", "Long Name"}, shortName : {"", "Short Name"}]

\* info.get('longName') or info.get('shortName') or ticker
name_from_info(info, ticker) ==
    IF info.longName # "" THEN info.longName
    ELSE IF info.shortName # "" THEN info.shortName
    ELSE ticker

\* get_security_name(ticker) on the cache 'cache' when the provider, if asked,
\* behaves as 'outcome': the value returned, the cache afterwards, whether the
\* provider was asked and whether the lookup failed.
get_security_name_fallback_uncached(cache, ticker, outcome) ==
    IF ticker \in DOMAIN cache
    THEN [returned |-> cache[ticker], cache |-> cache, fetched |-> FALSE, failed |-> FALSE]
    ELSE IF outcome.raises
    THEN [returned |-> ticker, cache |-> cache, fetched |-> TRUE, failed |-> TRUE]
    ELSE LET name == name_from_info(outcome, ticker)
         IN  [returned |-> name, cache |-> (ticker :> name) @@ cache,
              fetched |-> TRUE, failed |-> FALSE]

get_security_name(cache, ticker, outcome) ==
    IF ticker \in DOMAIN cache
    THEN [returned |-> cache[ticker], cache |-> cache, fetched |-> FALSE, failed |-> FALSE]
    ELSE IF outcome.raises
    THEN [returned |-> ticker, cache |-> (ticker :> ticker) @@ cache,
          fetched |-> TRUE, failed |-> TRUE]
    ELSE LET name == name_from_info(outcome, ticker)
         IN  [returned |-> name, cache |-> (ticker :> name) @@ cache,
              fetched |-> TRUE, failed |-> FALSE]

\* config.TICKERS (two of them) and config.TIMEFRAMES (two of them), in order.
TickerList == <<"EURUSD=X", "GC=F">>

TimeframeList == <<"1d", "1wk">>

\* The (ticker, timeframe) pairs in the order the nested loops submit them.
PairList ==
    [k \in 1..(Len(TickerList) * Len(TimeframeList)) |->
        <<TickerList[((k - 1) \div Len(TimeframeList)) + 1],
          TimeframeList[((k - 1) % Len(TimeframeList)) + 1]>>]

Pairs == {PairList[k] : k \in DOMAIN PairList}

\* total_checks = len(config.TICKERS) * len(config.TIMEFRAMES)
total_checks == Len(TickerList) * Len(TimeframeList)

\* What a submitted check_ticker_timeframe task can end in: a signal, no
\* signal and no error, no signal with a message, no signal with the empty
\* message (str(e) of an exception raised without arguments), or the future
\* raising instead of returning.
TaskOutcomes == {"signal", "nothing", "error", "empty_error", "raised"}

\* A signal dict as far as the collecting loop and the report look at it.
TaskSignal(pair) == [trend |-> "bullish", ticker |-> pair[1], timeframe |-> pair[2]]

\* future.result() of the task of 'pair' ending as 'o': raises, or the tuple
\* (ticker, timeframe, signal, error); the error None is the string "None".
task_result(pair, o) ==
    [raised |-> o = "raised", ticker |-> pair[1], timeframe |-> pair[2],
     signal |-> IF o = "signal" THEN TaskSignal(pair) ELSE None,
     error |-> IF o = "error" THEN "No data available"
               ELSE IF o = "empty_error" THEN ""
               ELSE "None"]

\* grouped_signals[ticker].append(entry) on a defaultdict(list).
defaultdict_append(d, key, entry) ==
    IF key \in DOMAIN d THEN [d EXCEPT ![key] = Append(@, entry)]
    ELSE (key :> <<entry>>) @@ d

\* The body of 'for future in as_completed(futures)' for one future: agg is
\* [grouped_signals, errors, checks_completed] before, the result is after.
collect(agg, pair, res) ==
    IF res.raised
    THEN [agg EXCEPT !.checks_completed = @ + 1,
                     !.errors = Append(@, <<pair[1], pair[2], "Task failed: ">>)]
    ELSE IF ~IsNone(res.signal)
    THEN [agg EXCEPT !.checks_completed = @ + 1,
                     !.grouped_signals =
                         defaultdict_append(@, res.ticker, <<res.timeframe, res.signal>>)]
    ELSE IF res.error # "None" /\ res.error # ""
    THEN [agg EXCEPT !.checks_completed = @ + 1,
                     !.errors = Append(@, <<res.ticker, res.timeframe, res.error>>)]
    ELSE [agg EXCEPT !.checks_completed = @ + 1]

\* config.TIMEFRAMES
ConfigTimeframes == {"4h", "1d", "1wk", "1mo"}

\* What fetch_candles can do when check_ticker_timeframe calls it: raise (with
\* a message, possibly the empty one), return None, return an empty list, or
\* return a list of candles; and whether the engine raises on that list.
FetchOutcomes ==
    {[kind |-> "raises", message |-> m, candles |-> <<>>, engine_raises |-> FALSE] :
        m \in {"fetch failed", ""}}
    \cup {[kind |-> k, message |-> "None", candles |-> <<>>, engine_raises |-> FALSE] :
            k \in {"none", "empty"}}
    \cup {[kind |-> "candles", message |-> "None", candles |-> cs, engine_raises |-> e] :
            cs \in InvocationInputs \ {<<>>}, e \in BOOLEAN}

\* check_ticker_timeframe(ticker, timeframe) when the fetch behaves as 'fetch':
\* the tuple returned, with the number of fetches and of engine calls made.
check_ticker_timeframe_retrying(ticker, timeframe, fetch) ==
    IF fetch.kind = "raises"
    THEN [ticker |-> ticker, timeframe |-> timeframe, signal |-> None,
          error |-> fetch.message, fetch_calls |-> 1, engine_calls |-> 0]
    ELSE IF fetch.kind \in {"none", "empty"}
    THEN [ticker |-> ticker, timeframe |-> timeframe, signal |-> None,
          error |-> "No data available", fetch_calls |-> 2, engine_calls |-> 0]
    ELSE IF fetch.engine_raises
    THEN [ticker |-> ticker, timeframe |-> timeframe, signal |-> None,
          error |-> "'low'", fetch_calls |-> 1, engine_calls |-> 1]
    ELSE [ticker |-> ticker, timeframe |-> timeframe,
          signal |-> check_entry_criteria(fetch.candles).signal,
          error |-> "None", fetch_calls |-> 1, engine_calls |-> 1]

check_ticker_timeframe(ticker, timeframe, fetch) ==
    IF fetch.kind = "raises"
    THEN [ticker |-> ticker, timeframe |-> timeframe, signal |-> None,
          error |-> fetch.message, fetch_calls |-> 1, engine_calls |-> 0]
    ELSE IF fetch.kind \in {"none", "empty"}
    THEN [ticker |-> ticker, timeframe |-> timeframe, signal |-> None,
          error |-> "No data available", fetch_calls |-> 1, engine_calls |-> 0]
    ELSE IF fetch.engine_raises
    THEN [ticker |-> ticker, timeframe |-> timeframe, signal |-> None,
          error |-> "'low'", fetch_calls |-> 1, engine_calls |-> 1]
    ELSE [ticker |-> ticker, timeframe |-> timeframe,
          signal |-> check_entry_criteria(fetch.candles).signal,
          error |-> "None", fetch_calls |-> 1, engine_calls |-> 1]

\* timeframe_priority.get(timeframe, 999)
timeframe_priority(timeframe) ==
    CASE timeframe = "1mo" -> 0
      [] timeframe = "1wk" -> 1
      [] timeframe = "1d" -> 2
      [] timeframe = "4h" -> 3
      [] timeframe = "1h" -> 4
      [] timeframe = "15m" -> 5
      [] timeframe = "5m" -> 6
      [] OTHER -> 999

\* Python's order of the ticker strings: "EURUSD=X" < "GC=F".
ticker_rank(ticker) == IF ticker = "EURUSD=X" THEN 1 ELSE 2

\* x placed into the sorted list 'sorted' behind every element that is not
\* after it: with sorted_by_* below this is Python's stable sorted().
RECURSIVE insert_by_priority(_, _)
insert_by_priority(sorted, x) ==
    IF sorted = <<>> THEN <<x>>
    ELSE IF timeframe_priority(x[1]) < timeframe_priority(sorted[1][1])
         THEN <<x>> \o sorted
         ELSE <<sorted[1]>> \o insert_by_priority(Tail(sorted), x)

\* sorted(grouped_signals[ticker], key=lambda x: timeframe_priority.get(x[0], 999))
RECURSIVE sorted_by_priority(_)
sorted_by_priority(entries) ==
    IF entries = <<>> THEN <<>>
    ELSE insert_by_priority(sorted_by_priority(SubSeq(entries, 1, Len(entries) - 1)),
                            entries[Len(entries)])

\* The tickers of gs in the order of
\* sorted(grouped_signals.keys(), key=lambda t: (-len(grouped_signals[t]), t)).
RECURSIVE sorted_tickers(_, _)
sorted_tickers(gs, left) ==
    IF left = {} THEN <<>>
    ELSE LET first == CHOOSE t \in left : \A u \in left \ {t} :
                          \/ Len(gs[t]) > Len(gs[u])
                          \/ Len(gs[t]) = Len(gs[u]) /\ ticker_rank(t) < ticker_rank(u)
         IN  <<first>> \o sorted_tickers(gs, left \ {first})

\* The loop 'for ticker in sorted_tickers' of format_grouped_signals from
\* position k on: one block (ticker, header text, sorted signals) per ticker,
\* with the cache as get_security_name leaves it and the number of provider
\* requests made.
RECURSIVE format_blocks(_, _, _, _, _)
format_blocks(gs, order, k, cache, outcomes) ==
    IF k > Len(order) THEN [blocks |-> <<>>, cache |-> cache, fetched |-> 0]
    ELSE LET ticker == order[k]
             n == get_security_name(cache, ticker, outcomes[ticker])
             rest == format_blocks(gs, order, k + 1, n.cache, outcomes)
             header == IF n.returned # ticker THEN <<ticker, n.returned>> ELSE <<ticker>>
         IN  [blocks |-> <<[ticker |-> ticker, header |-> header,
                            signals |-> sorted_by_priority(gs[ticker])]>> \o rest.blocks,
              cache |-> rest.cache,
              fetched |-> rest.fetched + (IF n.fetched THEN 1 ELSE 0)]

format_grouped_signals_unsorted(gs, cache, outcomes) ==
    LET r == format_blocks(gs, sorted_tickers(gs, DOMAIN gs), 1, cache, outcomes)
    IN  [r EXCEPT !.blocks = [k \in DOMAIN r.blocks |->
                                 [r.blocks[k] EXCEPT !.signals = gs[r.blocks[k].ticker]]]]

format_grouped_signals(gs, cache, outcomes) ==
    format_blocks(gs, sorted_tickers(gs, DOMAIN gs), 1, cache, outcomes)

\* Nothing was called yet: the orchestration layer as the module import leaves it.
OrchIdle ==
    /\ task_outcome = <<>>
    /\ task_state = <<>>
    /\ grouped_signals = <<>>
    /\ errors = <<>>
    /\ checks_completed = 0
    /\ report = None
    /\ invocations = <<>>
    /\ check_call = None
    /\ security_name_cache = [t \in {} |-> ""]
    /\ now = 0
    /\ provider_calls = 0
    /\ stored = [t \in {} |-> 0]
    /\ name_call = None

Idle ==
    /\ OrchIdle
    /\ op = "idle"
    /\ args = <<>>
    /\ swing_points = <<>>
    /\ trend = "None"
    /\ fvgs = <<>>
    /\ fvg = None
    /\ signal = None
    /\ fvg_searched = FALSE

Init ==
    /\ \/ \E n \in 0..MaxLen : candles \in CandleSeqs(n)
       \/ candles \in Fixtures
    /\ Idle

InitSwing ==
    /\ \/ \E n \in 0..MaxLen : candles \in HLCandleSeqs(n)
       \/ candles \in Fixtures
    /\ Idle

InitFvg ==
    /\ \E n \in 0..MaxFvgLen : candles \in HLCandleSeqs(n)
    /\ Idle

InitTrend ==
    /\ \E n \in 0..MaxTrendLen : candles \in HLCandleSeqs(n)
    /\ Idle

CallCheckEntryCriteria ==
    /\ op = "idle"
    /\ LET r == check_entry_criteria(candles)
       IN  /\ swing_points' = r.swing_points
           /\ trend' = r.trend
           /\ fvgs' = r.fvgs
           /\ fvg' = r.fvg
           /\ signal' = r.signal
           /\ fvg_searched' = r.searched
    /\ op' = "check_entry_criteria"
    /\ UNCHANGED <<candles, args, orch_vars>>

CallFindThreeSwingPoints ==
    /\ op = "idle"
    /\ swing_points' = find_three_swing_points(candles)
    /\ op' = "find_three_swing_points"
    /\ UNCHANGED <<candles, args, trend, fvgs, fvg, signal, fvg_searched, orch_vars>>

CallFindFvgsInRange ==
    /\ op = "idle"
    /\ \E start_idx \in 0..MaxStart, end_idx \in 0..MaxEnd,
          fvg_type \in {"bullish", "bearish"} :
          /\ args' = <<start_idx, end_idx, fvg_type>>
          /\ fvgs' = find_fvgs_in_range(candles, start_idx, end_idx, fvg_type)
    /\ fvg_searched' = TRUE
    /\ op' = "find_fvgs_in_range"
    /\ UNCHANGED <<candles, swing_points, trend, fvg, signal, orch_vars>>

\* select_optimal_fvg(fvgs, fvg_type) on a list a gap search of that polarity
\* returned, as check_entry_criteria and the tests call it.
CallSelectOptimalFvg ==
    /\ op = "idle"
    /\ \E start_idx \in 0..MaxStart, end_idx \in 0..MaxEnd,
          fvg_type \in {"bullish", "bearish"} :
          LET gs == find_fvgs_in_range(candles, start_idx, end_idx, fvg_type)
          IN  /\ args' = <<fvg_type>>
              /\ fvgs' = gs
              /\ fvg' = select_optimal_fvg(gs, fvg_type)
    /\ op' = "select_optimal_fvg"
    /\ UNCHANGED <<candles, swing_points, trend, signal, fvg_searched, orch_vars>>

\* analyze_trend(candles, swing_points) on any three tuples (index, type, value)
\* whose indices lie in the list, oldest last.
CallAnalyzeTrend ==
    /\ op = "idle"
    /\ \E i1, i2, i3 \in DOMAIN candles, t1, t2, t3 \in {"SH", "SL"},
          v1, v2, v3 \in Prices :
          /\ i3 < i2
          /\ i2 < i1
          /\ swing_points' = <<<<i1, t1, v1>>, <<i2, t2, v2>>, <<i3, t3, v3>>>>
          /\ trend' = analyze_trend(candles, swing_points')
    /\ op' = "analyze_trend"
    /\ UNCHANGED <<candles, args, fvgs, fvg, signal, fvg_searched, orch_vars>>

InitCache ==
    /\ candles = <<>>
    /\ Idle

\* A call of get_security_name(ticker) at the current time.
CallGetSecurityName ==
    /\ \E ticker \in Tickers, outcome \in ProviderOutcomes :
          LET r == get_security_name(security_name_cache, ticker, outcome)
          IN  /\ security_name_cache' = r.cache
              /\ provider_calls' = provider_calls + (IF r.fetched THEN 1 ELSE 0)
              /\ stored' = IF ticker \in DOMAIN r.cache /\ ticker \notin DOMAIN security_name_cache
                            THEN (ticker :> [at |-> now, failed |-> r.failed]) @@ stored
                            ELSE stored
              /\ name_call' = [ticker |-> ticker, returned |-> r.returned,
                               fetched |-> r.fetched, failed |-> r.failed, at |-> now]
    /\ UNCHANGED <<now, engine_vars, scan_vars, call_vars>>

\* Time passes between two calls.
Tick ==
    /\ now < MaxTicks * TickSeconds
    /\ now' = now + TickSeconds
    /\ UNCHANGED <<security_name_cache, provider_calls, stored, name_call, engine_vars,
                   scan_vars, call_vars>>

\* The start of one scan (monitor.py:159-165): nothing submitted yet; what
\* each task is going to end in is fixed per scan.
InitScan ==
    /\ candles = <<>>
    /\ op = "idle"
    /\ args = <<>>
    /\ swing_points = <<>>
    /\ trend = "None"
    /\ fvgs = <<>>
    /\ fvg = None
    /\ signal = None
    /\ fvg_searched = FALSE
    /\ security_name_cache = <<>>
    /\ now = 0
    /\ provider_calls = 0
    /\ stored = <<>>
    /\ name_call = None
    /\ task_outcome \in [Pairs -> TaskOutcomes]
    /\ task_state = [p \in Pairs |-> "unsubmitted"]
    /\ grouped_signals = <<>>
    /\ errors = <<>>
    /\ checks_completed = 0
    /\ report = None
    /\ invocations = <<>>
    /\ check_call = None

\* executor.submit(check_ticker_timeframe, ticker, timeframe) for the next pair
\* of the nested loops.
Submit ==
    /\ \E k \in DOMAIN PairList :
          /\ task_state[PairList[k]] = "unsubmitted"
          /\ \A j \in 1..(k - 1) : task_state[PairList[j]] # "unsubmitted"
          /\ task_state' = [task_state EXCEPT ![PairList[k]] = "queued"]
    /\ UNCHANGED <<task_outcome, grouped_signals, errors, checks_completed, report,
                   cache_vars, engine_vars, call_vars>>

\* A free worker of the pool takes a queued task.
StartTask ==
    /\ Cardinality({p \in Pairs : task_state[p] = "running"}) < MAX_WORKERS
    /\ \E p \in Pairs :
          /\ task_state[p] = "queued"
          /\ task_state' = [task_state EXCEPT ![p] = "running"]
    /\ UNCHANGED <<task_outcome, grouped_signals, errors, checks_completed, report,
                   cache_vars, engine_vars, call_vars>>

\* A running task returns or raises; its future is done.
FinishTask ==
    /\ \E p \in Pairs :
          /\ task_state[p] = "running"
          /\ task_state' = [task_state EXCEPT ![p] = "finished"]
    /\ UNCHANGED <<task_outcome, grouped_signals, errors, checks_completed, report,
                   cache_vars, engine_vars, call_vars>>

\* One iteration of 'for future in as_completed(futures)', entered once every
\* pair is submitted: some finished future not yet yielded is handled.
Collect ==
    /\ \A p \in Pairs : task_state[p] # "unsubmitted"
    /\ \E p \in Pairs :
          /\ task_state[p] = "finished"
          /\ LET agg == collect([grouped_signals |-> grouped_signals, errors |-> errors,
                                  checks_completed |-> checks_completed],
                                 p, task_result(p, task_outcome[p]))
             IN  /\ grouped_signals' = agg.grouped_signals
                 /\ errors' = agg.errors
                 /\ checks_completed' = agg.checks_completed
          /\ task_state' = [task_state EXCEPT ![p] = "collected"]
    /\ UNCHANGED <<task_outcome, report, cache_vars, engine_vars, call_vars>>

\* The end of the scan (monitor.py:185-186): once as_completed is exhausted the
\* grouped report is formatted, which looks up the name of every ticker listed.
Report ==
    /\ \A p \in Pairs : task_state[p] = "collected"
    /\ IsNone(report)
    /\ \E outcomes \in [Tickers -> ProviderOutcomes] :
          LET r == IF grouped_signals = <<>>
                   THEN [blocks |-> <<>>, cache |-> security_name_cache, fetched |-> 0]
                   ELSE format_grouped_signals(grouped_signals, security_name_cache, outcomes)
          IN  /\ report' = [blocks |-> r.blocks]
              /\ security_name_cache' = r.cache
              /\ provider_calls' = provider_calls + r.fetched
              /\ stored' = [t \in DOMAIN r.cache |->
                               IF t \in DOMAIN stored THEN stored[t]
                               ELSE [at |-> now, failed |-> outcomes[t].raises]]
    /\ UNCHANGED <<task_outcome, task_state, grouped_signals, errors, checks_completed,
                   now, name_call, engine_vars, call_vars>>

\* Two workers have each entered check_entry_criteria with a list of their own.
InitInvocations ==
    /\ candles = <<>>
    /\ op = "idle"
    /\ args = <<>>
    /\ swing_points = <<>>
    /\ trend = "None"
    /\ fvgs = <<>>
    /\ fvg = None
    /\ signal = None
    /\ fvg_searched = FALSE
    /\ security_name_cache = <<>>
    /\ now = 0
    /\ provider_calls = 0
    /\ stored = <<>>
    /\ name_call = None
    /\ task_outcome = <<>>
    /\ task_state = <<>>
    /\ grouped_signals = <<>>
    /\ errors = <<>>
    /\ checks_completed = 0
    /\ report = None
    /\ check_call = None
    /\ invocations \in [InvocationIds -> {invocation_start(cs) : cs \in InvocationInputs}]

\* One of the invocations in flight takes its next step.
StepInvocation ==
    /\ \E id \in DOMAIN invocations :
          /\ invocations[id].pc # "returned"
          /\ invocations' = [invocations EXCEPT ![id] = invocation_step(@)]
    /\ UNCHANGED <<check_call, engine_vars, cache_vars, scan_vars>>

InitCheck ==
    /\ candles = <<>>
    /\ Idle

\* A call of check_ticker_timeframe(ticker, timeframe).
CallCheckTickerTimeframe ==
    /\ \E ticker \in Tickers, timeframe \in ConfigTimeframes, fetch \in FetchOutcomes :
          check_call' = [ticker |-> ticker, timeframe |-> timeframe, fetch |-> fetch,
                         result |-> check_ticker_timeframe(ticker, timeframe, fetch)]
    /\ UNCHANGED <<invocations, engine_vars, cache_vars, scan_vars>>

Next == CallCheckEntryCriteria

NextSwing == CallFindThreeSwingPoints

NextFvg ==
    \/ CallFindFvgsInRange
    \/ CallSelectOptimalFvg

NextTrend == CallAnalyzeTrend

NextCache ==
    \/ CallGetSecurityName
    \/ Tick

NextInvocations == StepInvocation

NextCheck == CallCheckTickerTimeframe

NextScan ==
    \/ Submit
    \/ StartTask
    \/ FinishTask
    \/ Collect
    \/ Report

\* The engine called on a candle sequence.
Spec == Init /\ [][Next]_vars

\* The extractor called on a candle sequence.
SpecSwing == InitSwing /\ [][NextSwing]_vars

\* The gap search and the gap selection called on a candle sequence.
SpecFvg == InitFvg /\ [][NextFvg]_vars

\* The trend classifier called on a candle sequence and three swing points.
SpecTrend == InitTrend /\ [][NextTrend]_vars

\* The security-name cache used over time.
SpecCache == InitCache /\ [][NextCache]_vars

\* Two concurrent invocations of the engine.
SpecInvocations == InitInvocations /\ [][NextInvocations]_vars

\* check_ticker_timeframe called with every behaviour of the fetch.
SpecCheck == InitCheck /\ [][NextCheck]_vars

\* One scan of all (ticker, timeframe) pairs.
SpecScan == InitScan /\ [][NextScan]_vars

(***************************************************************************)
(* Properties                                                               *)
(***************************************************************************)
SignalReturned == op = "check_entry_criteria" /\ ~IsNone(signal)

SwingsReturned == op = "find_three_swing_points" /\ swing_points # <<>>

\* C1: the gap of every returned signal starts within [sp2.index, sp1.index],
\* and none of the three candles of its window is at or before sp3.index.
C1_RangeConfinement ==
    SignalReturned =>
        LET sps == signal.swing_points
            g   == signal.fvg
        IN  /\ sps[2][1] <= g.start_idx
            /\ g.start_idx <= sps[1][1]
            /\ \A k \in g.start_idx..g.end_idx : k > sps[3][1]

\* A signal was returned although a gap of the same polarity that starts
\* between sp3 and sp2 has a better bottom (bullish) or top (bearish).
C1_Witness ==
    /\ SignalReturned
    /\ LET sps   == signal.swing_points
           g     == signal.fvg
           older == find_fvgs_in_range(candles, sps[3][1], sps[2][1] - 1, signal.trend)
       IN  \E k \in 1..Len(older) :
               \/ signal.trend = "bullish" /\ older[k].bottom > g.bottom
               \/ signal.trend = "bearish" /\ older[k].top < g.top

\* C2: consecutive points of a returned triple never share a kind.
C2_Alternation ==
    SwingsReturned =>
        /\ swing_points[1][2] # swing_points[2][2]
        /\ swing_points[2][2] # swing_points[3][2]

\* A triple was returned and a swing candle lying between its points was skipped.
C2_Witness ==
    /\ SwingsReturned
    /\ \E i \in (swing_points[3][1] + 1)..(swing_points[1][1] - 1) :
           /\ identify_swing_high(candles, i) \/ identify_swing_low(candles, i)
           /\ \A k \in 1..3 : swing_points[k][1] # i

\* C3: every gap a gap search returns has top > bottom and end_idx = start_idx + 2,
\* and a window whose two bounding prices are equal yields no gap.
C3_GapValidity ==
    op = "find_fvgs_in_range" =>
        /\ \A k \in 1..Len(fvgs) :
               /\ fvgs[k].top > fvgs[k].bottom
               /\ fvgs[k].end_idx = fvgs[k].start_idx + 2
        /\ \A i \in 0..(len(candles) - 3) :
               (IF args[3] = "bullish"
                THEN candles[i + 2].low = candles[i].high
                ELSE candles[i].low = candles[i + 2].high)
               => \A k \in 1..Len(fvgs) : fvgs[k].start_idx # i

\* A search returned a gap and passed over a zero-width window in its range.
C3_Witness ==
    /\ op = "find_fvgs_in_range"
    /\ fvgs # <<>>
    /\ \E i \in args[1]..Min2(args[2], len(candles) - 3) :
           IF args[3] = "bullish"
           THEN candles[i + 2].low = candles[i].high
           ELSE candles[i].low = candles[i + 2].high

\* C4: target is the value of swing_points[0] and stop_loss the value of
\* swing_points[1], for both trends.
C4_TargetStop ==
    SignalReturned =>
        /\ signal.swing_points = swing_points
        /\ signal.target = swing_points[1][3]
        /\ signal.stop_loss = swing_points[2][3]

\* A bullish signal whose middle swing low lies above its most recent swing high.
C4_Witness ==
    /\ SignalReturned
    /\ signal.trend = "bullish"
    /\ swing_points[2][3] > swing_points[1][3]
    /\ signal.stop_loss > signal.target

\* The classifier answered with the trend opposite to the swing pattern.
Reversal ==
    /\ op = "check_entry_criteria"
    /\ swing_points # <<>>
    /\ \/ trend = "bearish" /\ swing_points[1][2] = "SH" /\ swing_points[3][2] = "SH"
       \/ trend = "bullish" /\ swing_points[1][2] = "SL" /\ swing_points[3][2] = "SL"

\* C5: on a reversal no gap search is made and no signal returned; a returned
\* signal has kinds SH,SL,SH when bullish and SL,SH,SL when bearish.
C5_NoReversalSignal ==
    /\ Reversal => IsNone(signal) /\ ~fvg_searched
    /\ SignalReturned =>
           LET kinds == <<swing_points[1][2], swing_points[2][2], swing_points[3][2]>>
           IN  /\ signal.trend = "bullish" => kinds = <<"SH", "SL", "SH">>
               /\ signal.trend = "bearish" => kinds = <<"SL", "SH", "SL">>
               /\ signal.trend = trend

\* A reversal on a sequence that holds a gap of the classifier's polarity
\* between sp2 and sp1.
C5_Witness ==
    /\ Reversal
    /\ find_fvgs_in_range(candles, swing_points[2][1], swing_points[1][1], trend) # <<>>

\* C6: the selected gap is a member of the list with the highest bottom
\* (bullish) or the lowest top (bearish).
C6_Optimal ==
    (op = "select_optimal_fvg" /\ fvgs # <<>>) =>
        /\ \E k \in 1..Len(fvgs) : fvgs[k] = fvg
        /\ args[1] = "bullish" => \A k \in 1..Len(fvgs) : fvg.bottom >= fvgs[k].bottom
        /\ args[1] = "bearish" => \A k \in 1..Len(fvgs) : fvg.top <= fvgs[k].top

\* A selection among bullish gaps with different bottoms, the first not the best.
C6_Witness ==
    /\ op = "select_optimal_fvg"
    /\ args[1] = "bullish"
    /\ Len(fvgs) >= 2
    /\ fvgs[1].bottom < fvg.bottom

\* The gaps of the list that tie with the selected one on the selection key.
Tied ==
    {k \in 1..Len(fvgs) : IF args[1] = "bullish" THEN fvgs[k].bottom = fvg.bottom
                                                  ELSE fvgs[k].top = fvg.top}

\* C7: among the gaps tying for the extreme value the one with the smallest
\* start_idx is selected.
C7_TieEarliest ==
    (op = "select_optimal_fvg" /\ fvgs # <<>>) =>
        \A k \in Tied : fvg.start_idx <= fvgs[k].start_idx

\* A selection in which two gaps tie for the extreme value.
C7_Witness ==
    /\ op = "select_optimal_fvg"
    /\ fvgs # <<>>
    /\ Cardinality(Tied) >= 2

\* C8: while fewer than 3 points are accepted, a candle that is a swing high
\* with the last accepted kind not High, or a swing low with the last accepted
\* kind not Low, is accepted and not passed over.
C8_NoSwingPassedOver ==
    op = "find_three_swing_points" =>
        \A i \in 1..(len(candles) - 2) :
            LET st == swing_scan(candles, len(candles) - 2, i, swing_start)
            IN  (/\ Len(st.sps) < 3
                 /\ \/ identify_swing_high(candles, i) /\ st.last_type # "SH"
                    \/ identify_swing_low(candles, i) /\ st.last_type # "SL")
                => Len(swing_step(candles, i, st).sps) = Len(st.sps) + 1

\* C9: a returned triple is ordered most-recent-first over interior indices,
\* and a sequence of fewer than 5 candles yields no triple.
C9_IndexOrder ==
    op = "find_three_swing_points" =>
        /\ swing_points # <<>> =>
               /\ len(candles) - 2 >= swing_points[1][1]
               /\ swing_points[1][1] > swing_points[2][1]
               /\ swing_points[2][1] > swing_points[3][1]
               /\ swing_points[3][1] >= 1
        /\ len(candles) < 5 => swing_points = <<>>

\* A triple that spans the whole interior: from index len-2 down to index 1.
C9_Witness ==
    /\ SwingsReturned
    /\ swing_points[1][1] = len(candles) - 2
    /\ swing_points[3][1] = 1

\* C10: every returned point is a strict local extremum of its kind and
\* carries that candle's high (SH) or low (SL).
C10_StrictExtremum ==
    SwingsReturned =>
        \A k \in 1..3 :
            LET i == swing_points[k][1]
                v == swing_points[k][3]
            IN  /\ i - 1 \in DOMAIN candles /\ i + 1 \in DOMAIN candles
                /\ swing_points[k][2] \in {"SH", "SL"}
                /\ swing_points[k][2] = "SH" =>
                       /\ candles[i].high > candles[i - 1].high
                       /\ candles[i].high > candles[i + 1].high
                       /\ v = candles[i].high
                /\ swing_points[k][2] = "SL" =>
                       /\ candles[i].low < candles[i - 1].low
                       /\ candles[i].low < candles[i + 1].low
                       /\ v = candles[i].low

\* A triple was returned and the scan passed a candle, newer than the oldest
\* point, whose high equals one neighbour's and exceeds the other's.
C10_Witness ==
    /\ SwingsReturned
    /\ \E i \in (swing_points[3][1] + 1)..(swing_points[1][1] - 1) :
           /\ candles[i].high = candles[i - 1].high
           /\ candles[i].high > candles[i + 1].high
           /\ \A k \in 1..3 : swing_points[k][1] # i

TrendReturned == op = "analyze_trend"

\* Some candle with index in [from, len-1] closes strictly above / below v.
ClosesAbove(from, v) == \E i \in from..(len(candles) - 1) : candles[i].close > v

ClosesBelow(from, v) == \E i \in from..(len(candles) - 1) : candles[i].close < v

ClosesAt(from, v) == \E i \in from..(len(candles) - 1) : candles[i].close = v

\* C11: for sp3 and sp1 both swing highs the classifier answers bullish when a
\* candle from sp3.index on closes above sp3.value, else bullish when
\* sp1.value > sp3.value, else bearish when a candle from sp2.index on closes
\* below sp2.value, else no trend; all comparisons are strict.
C11_HighPriority ==
    (TrendReturned /\ swing_points[3][2] = "SH" /\ swing_points[1][2] = "SH") =>
        LET sp1 == swing_points[1]
            sp2 == swing_points[2]
            sp3 == swing_points[3]
        IN  trend = IF ClosesAbove(sp3[1], sp3[3]) THEN "bullish"
                    ELSE IF sp1[3] > sp3[3] THEN "bullish"
                    ELSE IF ClosesBelow(sp2[1], sp2[3]) THEN "bearish"
                    ELSE "None"

\* The third rule decides: a close equal to sp3.value but none above it, sp1
\* not above sp3, and a close below sp2.value.
C11_Witness ==
    /\ TrendReturned
    /\ swing_points[3][2] = "SH" /\ swing_points[1][2] = "SH"
    /\ ClosesAt(swing_points[3][1], swing_points[3][3])
    /\ ~ClosesAbove(swing_points[3][1], swing_points[3][3])
    /\ swing_points[1][3] <= swing_points[3][3]
    /\ ClosesBelow(swing_points[2][1], swing_points[2][3])
    /\ trend = "bearish"

\* C12: for sp3 and sp1 both swing lows the classifier answers bearish when a
\* candle from sp3.index on closes below sp3.value, else bearish when
\* sp1.value < sp3.value, else bullish when a candle from sp2.index on closes
\* above sp2.value, else no trend; when sp1 and sp3 are of different kinds it
\* answers no trend.
C12_LowPriority ==
    TrendReturned =>
        LET sp1 == swing_points[1]
            sp2 == swing_points[2]
            sp3 == swing_points[3]
        IN  /\ (sp3[2] = "SL" /\ sp1[2] = "SL") =>
                  trend = IF ClosesBelow(sp3[1], sp3[3]) THEN "bearish"
                          ELSE IF sp1[3] < sp3[3] THEN "bearish"
                          ELSE IF ClosesAbove(sp2[1], sp2[3]) THEN "bullish"
                          ELSE "None"
            /\ sp3[2] # sp1[2] => trend = "None"

\* The mirrored third rule decides: a close equal to sp3.value but none below
\* it, sp1 not below sp3, and a close above sp2.value.
C12_Witness ==
    /\ TrendReturned
    /\ swing_points[3][2] = "SL" /\ swing_points[1][2] = "SL"
    /\ ClosesAt(swing_points[3][1], swing_points[3][3])
    /\ ~ClosesBelow(swing_points[3][1], swing_points[3][3])
    /\ swing_points[1][3] >= swing_points[3][3]
    /\ ClosesAbove(swing_points[2][1], swing_points[2][3])
    /\ trend = "bullish"

\* The condition of a gap of polarity t on the window that starts at i, and
\* the gap such a window forms.
GapCondition(i, t) ==
    IF t = "bullish" THEN candles[i + 2].low > candles[i].high
    ELSE candles[i].low > candles[i + 2].high

GapOfWindow(i, t) ==
    [type |-> t,
     top |-> IF t = "bullish" THEN candles[i + 2].low ELSE candles[i].low,
     bottom |-> IF t = "bullish" THEN candles[i].high ELSE candles[i + 2].high,
     start_idx |-> i, end_idx |-> i + 2]

\* C13: the gap search returns, in ascending order of i, the gap of each
\* window i in [start_idx, min(end_idx, len-3)] that satisfies the polarity's
\* condition and nothing else; the gap is built from candles i and i+2 only,
\* and an end_idx beyond len-3 or a list shorter than 3 gives a result.
C13_ExactSearch ==
    op = "find_fvgs_in_range" =>
        LET start_idx == args[1]
            end_idx   == args[2]
            t         == args[3]
            hits == {i \in start_idx..Min2(end_idx, len(candles) - 3) : GapCondition(i, t)}
        IN  /\ {fvgs[k].start_idx : k \in 1..Len(fvgs)} = hits
            /\ \A k \in 1..Len(fvgs) : fvgs[k] = GapOfWindow(fvgs[k].start_idx, t)
            /\ \A j, k \in 1..Len(fvgs) : j < k => fvgs[j].start_idx < fvgs[k].start_idx
            /\ len(candles) < 3 => fvgs = <<>>

\* A search whose end_idx lies beyond len-3 returned two gaps.
C13_Witness ==
    /\ op = "find_fvgs_in_range"
    /\ args[2] > len(candles) - 3
    /\ Len(fvgs) = 2
    /\ fvgs[2].start_idx = len(candles) - 3

EntryReturned == op = "check_entry_criteria"

\* The classifier's answer matches the kinds of sp1 and sp3.
TrendMatchesPattern ==
    /\ swing_points # <<>>
    /\ \/ trend = "bullish" /\ swing_points[3][2] = "SH" /\ swing_points[1][2] = "SH"
       \/ trend = "bearish" /\ swing_points[3][2] = "SL" /\ swing_points[1][2] = "SL"

\* The windows of polarity t inside the list that start in [sp2.index, sp1.index]
\* and satisfy the gap condition.
GapsInSwingRange(t) ==
    {i \in swing_points[2][1]..swing_points[1][1] :
        i + 2 <= len(candles) - 1 /\ GapCondition(i, t)}

\* Window i is the choice among the windows in H: best bottom (bullish) or
\* best top (bearish), the earliest among equals.
IsOptimalAmong(i, H, t) ==
    /\ i \in H
    /\ \A j \in H :
          IF t = "bullish"
          THEN /\ GapOfWindow(j, t).bottom <= GapOfWindow(i, t).bottom
               /\ GapOfWindow(j, t).bottom = GapOfWindow(i, t).bottom => i <= j
          ELSE /\ GapOfWindow(j, t).top >= GapOfWindow(i, t).top
               /\ GapOfWindow(j, t).top = GapOfWindow(i, t).top => i <= j

\* C14: a run of the assembler ends with a signal or with none; the gap
\* search is reached only after a trend was classified, the classifier only
\* after three swing points were found; a signal is returned exactly when
\* three points were found, the trend matches their pattern and some gap of
\* that polarity starts in [sp2.index, sp1.index], and its gap is then the
\* optimal one of exactly those gaps.
C14_Outcome ==
    EntryReturned =>
        /\ fvg_searched => trend # "None"
        /\ trend # "None" => swing_points # <<>>
        /\ IsNone(signal) \/ signal.trend \in {"bullish", "bearish"}
        /\ ~IsNone(signal) <=>
               (TrendMatchesPattern /\ GapsInSwingRange(trend) # {})
        /\ ~IsNone(signal) =>
               /\ fvg_searched
               /\ signal.trend = trend
               /\ signal.swing_points = swing_points
               /\ \E i \in GapsInSwingRange(trend) :
                      /\ IsOptimalAmong(i, GapsInSwingRange(trend), trend)
                      /\ signal.fvg = GapOfWindow(i, trend)

\* A signal was returned for a swing range that holds two gaps or more.
C14_Witness ==
    /\ SignalReturned
    /\ Cardinality(GapsInSwingRange(trend)) >= 2

\* C15: the three candles of the gap of every returned signal lie between
\* the middle and the most recent swing point:
\* sp2.index <= fvg.start_idx and fvg.end_idx <= sp1.index.
C15_WindowInSwingRange ==
    SignalReturned =>
        /\ signal.swing_points[2][1] <= signal.fvg.start_idx
        /\ signal.fvg.end_idx <= signal.swing_points[1][1]

\* Fewer than 3 candles, or a candle with high < low.
Malformed(cs) == len(cs) < 3 \/ \E i \in DOMAIN cs : cs[i].high < cs[i].low

\* C16: on a candle list with fewer than 3 candles or with a candle whose
\* high is below its low, check_entry_criteria ends with an InvalidInput
\* outcome, distinct from the no-signal outcome, and never with a signal.
C16_MalformedRejected ==
    (EntryReturned /\ Malformed(candles)) =>
        /\ Outcome(signal) = "InvalidInput"
        /\ Outcome(signal) # "Signal"

\* C17: on a list of at least 3 candles with high >= low in each, a run of
\* check_entry_criteria ends with a signal or with none, and every index the
\* extractor, the close scans and the gap search read lies in [0, len-1].
C17_NoIndexOutOfRange ==
    (EntryReturned /\ ~Malformed(candles)) =>
        /\ check_entry_criteria_reads(candles) \subseteq 0..(len(candles) - 1)
        /\ Outcome(signal) \in {"Signal", "NoSignal"}

\* A signal on a well-formed list for which both the first and the last
\* candle of the list were read.
C17_Witness ==
    /\ SignalReturned
    /\ ~Malformed(candles)
    /\ 0 \in check_entry_criteria_reads(candles)
    /\ (len(candles) - 1) \in find_fvgs_in_range_reads(candles, swing_points[2][1], swing_points[1][1])

\* C18: on the 10 candles of create_test_candles the extractor returns
\* [(8,SH,120), (3,SL,98), (1,SH,110)], the classifier returns bullish and the
\* assembler returns a bullish signal with target 120 and stop_loss 98.
C18_ScenarioB ==
    (EntryReturned /\ candles = create_test_candles) =>
        /\ swing_points = <<<<8, "SH", 120>>, <<3, "SL", 98>>, <<1, "SH", 110>>>>
        /\ trend = "bullish"
        /\ ~IsNone(signal)
        /\ signal.trend = "bullish"
        /\ signal.target = 120
        /\ signal.stop_loss = 98

\* The assembler returned a signal on the 10-candle fixture.
C18_Witness ==
    /\ SignalReturned
    /\ candles = create_test_candles
    /\ Len(swing_points) = 3

ScenarioBReturned == EntryReturned /\ candles = create_test_candles

GapLowest ==
    [type |-> "bullish", top |-> 104, bottom |-> 101, start_idx |-> 4, end_idx |-> 6]

GapLower ==
    [type |-> "bullish", top |-> 111, bottom |-> 107, start_idx |-> 5, end_idx |-> 7]

GapUpper ==
    [type |-> "bullish", top |-> 112, bottom |-> 108, start_idx |-> 6, end_idx |-> 8]

\* C19 as stated: on the 10 candles of create_test_candles the gap search
\* over [3,8] finds the bullish gap of window (5,6,7), top 111 and bottom 107,
\* and the signal carries that gap (gap.bottom = 107).
C19_ScenarioBGap ==
    ScenarioBReturned =>
        /\ fvg_searched
        /\ \E k \in 1..Len(fvgs) : fvgs[k] = GapLower
        /\ ~IsNone(signal)
        /\ signal.fvg = GapLower
        /\ signal.fvg.bottom = 107

\* C19 amended: on the 10 candles of create_test_candles the gap search over
\* [3,8] finds three bullish gaps, window (4,5,6) with top 104 and bottom 101,
\* window (5,6,7) with top 111 and bottom 107 and window (6,7,8) with top 112
\* and bottom 108, and the signal carries the last one, whose bottom is the
\* highest (gap.bottom = 108).
C19_ScenarioBGapAmended ==
    ScenarioBReturned =>
        /\ fvg_searched
        /\ search_range(swing_points) = <<3, 8>>
        /\ fvgs = <<GapLowest, GapLower, GapUpper>>
        /\ ~IsNone(signal)
        /\ signal.fvg = GapUpper
        /\ signal.fvg.bottom = 108

\* The assembler's gap search on the 10-candle fixture returned three gaps.
C19_Witness ==
    /\ ScenarioBReturned
    /\ Len(fvgs) = 3
    /\ fvg = signal.fvg

\* C20: on the 13 candles of test_fvg_range_verification the extractor
\* returns the annotated points: the swing high at index 11 (most recent), the
\* swing low at index 6 with low 85 (middle) and the swing high at index 1
\* (oldest).
C20_RangeFixtureSwings ==
    (SwingsReturned /\ candles = range_verification_candles) =>
        swing_points = <<<<11, "SH", 115>>, <<6, "SL", 85>>, <<1, "SH", 110>>>>

\* The last call of get_security_name was answered from the cache.
ServedFromCache == ~IsNone(name_call) /\ ~name_call.fetched

\* C21: a name is served from the cache only while less than
\* SECURITY_NAME_CACHE_DURATION seconds have passed since it was stored; a
\* lookup after that fetches the name from the provider again.
C21_TimeBoundedCache ==
    ServedFromCache =>
        name_call.at - stored[name_call.ticker].at < SECURITY_NAME_CACHE_DURATION

\* Every task of the scan was handled by the collecting loop.
ScanDone == task_state # <<>> /\ \A p \in Pairs : task_state[p] = "collected"

\* How often the pair is listed in grouped_signals / in errors.
TimesGrouped(p) ==
    IF p[1] \in DOMAIN grouped_signals
    THEN Cardinality({k \in 1..Len(grouped_signals[p[1]]) : grouped_signals[p[1]][k][1] = p[2]})
    ELSE 0

TimesInErrors(p) ==
    Cardinality({k \in 1..Len(errors) : errors[k][1] = p[1] /\ errors[k][2] = p[2]})

ReportPrinted == ~IsNone(report)

\* What the outcomes of the tasks alone determine: the (timeframe, signal)
\* entries of a ticker, the error tuples, the number of signals of a ticker.
EntriesOf(ticker) ==
    {<<tf, TaskSignal(<<ticker, tf>>)>> :
        tf \in {x \in {p[2] : p \in Pairs} : task_outcome[<<ticker, x>>] = "signal"}}

ErrorTuples ==
    {<<p[1], p[2], "No data available">> : p \in {q \in Pairs : task_outcome[q] = "error"}}
    \cup {<<p[1], p[2], "Task failed: ">> : p \in {q \in Pairs : task_outcome[q] = "raised"}}

Range(seq) == {seq[k] : k \in DOMAIN seq}

\* C23: whatever the order in which the tasks complete, the scan ends with
\* the entries per ticker, the error tuples and the order of tickers and of
\* each ticker's signals in the grouped report that the outcomes of the tasks
\* determine: tickers by falling number of signals, then by name; signals by
\* timeframe priority.
C23_OrderIndependent ==
    /\ ScanDone =>
          /\ DOMAIN grouped_signals = {t \in Tickers : EntriesOf(t) # {}}
          /\ \A t \in DOMAIN grouped_signals :
                /\ Range(grouped_signals[t]) = EntriesOf(t)
                /\ Len(grouped_signals[t]) = Cardinality(EntriesOf(t))
          /\ Range(errors) = ErrorTuples
          /\ Len(errors) = Cardinality(ErrorTuples)
    /\ ReportPrinted =>
          LET b == report.blocks
          IN  /\ {b[k].ticker : k \in DOMAIN b} = {t \in Tickers : EntriesOf(t) # {}}
              /\ \A k \in DOMAIN b :
                    /\ Range(b[k].signals) = EntriesOf(b[k].ticker)
                    /\ \A i, j \in DOMAIN b[k].signals :
                          i < j => timeframe_priority(b[k].signals[i][1])
                                     < timeframe_priority(b[k].signals[j][1])
              /\ \A j, k \in DOMAIN b :
                    j < k =>
                      \/ Cardinality(EntriesOf(b[j].ticker)) > Cardinality(EntriesOf(b[k].ticker))
                      \/ /\ Cardinality(EntriesOf(b[j].ticker)) = Cardinality(EntriesOf(b[k].ticker))
                         /\ ticker_rank(b[j].ticker) < ticker_rank(b[k].ticker)

\* A report of two tickers in which a ticker's signals were collected in
\* another order than the report lists them, and errors were collected too.
C23_Witness ==
    /\ ReportPrinted
    /\ Len(report.blocks) = 2
    /\ \E k \in DOMAIN report.blocks :
          report.blocks[k].signals # grouped_signals[report.blocks[k].ticker]
    /\ errors # <<>>

C25_InvertedLevelsEmitted ==
    /\ (EntryReturned /\ candles = inverted_levels_candles) =>
          /\ ~Malformed(candles)
          /\ ~IsNone(signal)
          /\ signal.trend = "bullish"
          /\ signal.swing_points[2][3] >= signal.swing_points[1][3]
    /\ (SignalReturned /\ signal.trend = "bullish"
          /\ signal.swing_points[2][3] >= signal.swing_points[1][3]) =>
          /\ signal.target = signal.swing_points[1][3]
          /\ signal.stop_loss = signal.swing_points[2][3]
          /\ signal.target <= signal.stop_loss

\* The bullish signal of inverted_levels_candles: target 2 below stop_loss 3.
C25_Witness ==
    /\ SignalReturned
    /\ candles = inverted_levels_candles
    /\ ~Malformed(candles)
    /\ signal.trend = "bullish"
    /\ signal.target = 2
    /\ signal.stop_loss = 3

CheckReturned == ~IsNone(check_call)

\* C26: a call of check_ticker_timeframe fetches exactly once and returns a
\* tuple for its ticker and timeframe: no signal and "No data available",
\* without calling the engine, when the fetch gave None or an empty list; no
\* signal and the exception's message when the fetch or the engine raised;
\* otherwise the engine's result and no error.
C26_CheckOutcome ==
    CheckReturned =>
        LET f == check_call.fetch
            r == check_call.result
        IN  /\ r.fetch_calls = 1
            /\ r.ticker = check_call.ticker
            /\ r.timeframe = check_call.timeframe
            /\ f.kind \in {"none", "empty"} =>
                  /\ IsNone(r.signal)
                  /\ r.error = "No data available"
                  /\ r.engine_calls = 0
            /\ f.kind = "raises" =>
                  /\ IsNone(r.signal)
                  /\ r.error = f.message
            /\ (f.kind = "candles" /\ f.engine_raises) =>
                  /\ IsNone(r.signal)
                  /\ r.error # "None"
            /\ (f.kind = "candles" /\ ~f.engine_raises) =>
                  /\ r.signal = check_entry_criteria(f.candles).signal
                  /\ r.error = "None"
                  /\ r.engine_calls = 1

\* A call whose fetch returned an empty list.
C26_Witness ==
    /\ CheckReturned
    /\ check_call.fetch.kind = "empty"
    /\ check_call.result.error = "No data available"
    /\ check_call.result.engine_calls = 0

====
